---- MODULE Spec2Model ----
(***************************************************************************)
(* rawmv: mv(1) without the cp(1) fallback, a wrapper of renameat2(2).     *)
(* The model follows src/main.rs: App::parse_args (flag extraction and the *)
(* three-mode operand resolver), App::push_move_to_dir, main (the rename   *)
(* executor) and do_rename.                                                *)
(*                                                                         *)
(* A path, and a command-line token, is the sequence of its components:    *)
(* "/" is <<"/">>, "/a" is <<"/", "a">>, "x/a" is <<"x", "a">>, and the    *)
(* token "-f" is <<"-f">>.                                                 *)
(***************************************************************************)
EXTENDS Integers, Sequences, FiniteSets, TLC

\* ---------------------------------------------------------------- bounds

\* The longest command line explored.
MaxArgs == 4

\* ---------------------------------------------------------------- paths

Root == <<"/">>

None == <<"None">>

Some(x) == <<"Some", x>>

\* Path::file_name: the final component, None when the path ends in the root.
file_name(p) ==
    IF Len(p) = 0 \/ p[Len(p)] = "/" THEN None ELSE Some(p[Len(p)])

\* Path::join with a relative single component.
join(dir, base) == Append(dir, base)

IsPrefix(p, q) == Len(p) <= Len(q) /\ SubSeq(q, 1, Len(p)) = p

\* ---------------------------------------------------------------- filesystem
\* fs maps every existing path to [kind, id]; id names the object, so that a
\* replaced destination is told from an untouched one.

Exists(f, p) == p \in DOMAIN f

\* Path::is_dir
is_dir(f, p) == Exists(f, p) /\ f[p].kind = "dir"

Parent(p) == SubSeq(p, 1, Len(p) - 1)

Children(f, p) == {q \in DOMAIN f : IsPrefix(p, q) /\ q # p}

\* The filesystem after src has been renamed to dest: src and everything below
\* it moves, whatever was at dest is replaced.
Moved(f, src, dest) ==
    IF src = dest THEN f
    ELSE LET stay == {q \in DOMAIN f : ~IsPrefix(src, q) /\ ~IsPrefix(dest, q)}
             go   == {q \in DOMAIN f : IsPrefix(src, q)}
             to(q) == dest \o SubSeq(q, Len(src) + 1, Len(q))
             from(r) == CHOOSE q \in go : to(q) = r
         IN  [r \in stay \cup {to(q) : q \in go} |->
                 IF r \in stay THEN f[r] ELSE f[from(r)]]

\* What renameat2(2) answers when nothing outside the two paths interferes.
RenameKind(f, src, dest, overwrite) ==
    IF src = Root THEN "Other"
    ELSE IF dest = Root THEN (IF overwrite THEN "Other" ELSE "AlreadyExists")
    ELSE IF Len(dest) > 1 /\ ~Exists(f, Parent(dest)) THEN "NotFound"
    ELSE IF Len(dest) > 1 /\ ~is_dir(f, Parent(dest)) THEN "Other"
    ELSE IF ~Exists(f, src) THEN "NotFound"
    ELSE IF ~overwrite /\ Exists(f, dest) THEN "AlreadyExists"
    ELSE IF src = dest THEN "Ok"
    ELSE IF IsPrefix(src, dest) THEN "Other"
    ELSE IF Exists(f, dest) /\ f[dest].kind # f[src].kind THEN "Other"
    ELSE IF Exists(f, dest) /\ Children(f, dest) # {} THEN "Other"
    ELSE "Ok"

\* do_rename with the flags left empty whatever overwrite says.
do_rename_AlwaysOverwrite(f, src, dest, overwrite) ==
    {RenameKind(f, src, dest, TRUE), "Other"}

\* do_rename: every answer the rename primitive can give.  Beside the answer the
\* two paths decide, the OS may refuse for a reason the model does not track
\* (permission denied, cross-device, read-only filesystem): "Other".
do_rename(f, src, dest, overwrite) ==
    {RenameKind(f, src, dest, overwrite), "Other"}

\* ---------------------------------------------------------------- pico_args
\* The flag parser as parse_args uses it: a vector of tokens, from which each
\* lookup removes what it finds.

K_help == <<<<"-h">>, <<"--help">>>>
K_version == <<<<"-V">>, <<"--version">>>>
K_force == <<<<"-f">>, <<"--force">>>>
K_no_clobber == <<<<"-n">>, <<"--no-clobber">>>>
K_interactive == <<<<"-i">>, <<"--interactive">>>>
K_verbose == <<<<"-v">>, <<"--verbose">>>>
K_target_directory == <<<<"-t">>, <<"--target-directory">>>>
K_no_target_directory == <<<<"-T">>, <<"--no-target-directory">>>>

DashDash == <<"--">>

\* Iterator::position: the first index holding tok, 0 when there is none.
Position(v, tok) ==
    IF \E k \in 1..Len(v) : v[k] = tok
    THEN CHOOSE k \in 1..Len(v) : v[k] = tok /\ \A j \in 1..(k - 1) : v[j] # tok
    ELSE 0

Remove(v, k) == SubSeq(v, 1, k - 1) \o SubSeq(v, k + 1, Len(v))

\* Arguments::index_of: the short key anywhere, else the long key anywhere.
index_of(v, keys) ==
    IF Position(v, keys[1]) # 0 THEN Position(v, keys[1]) ELSE Position(v, keys[2])

\* Arguments::contains: whether a key is present ...
contains(v, keys) == index_of(v, keys) # 0

\* ... and the vector it leaves: the occurrence found is removed.
after_contains(v, keys) ==
    IF index_of(v, keys) = 0 THEN v ELSE Remove(v, index_of(v, keys))

\* Arguments::opt_value_from_os_str: the token after the key is the value,
\* whatever it looks like; a key in last position has no value.
opt_value(v, keys) ==
    LET k == index_of(v, keys)
    IN  IF k = 0 THEN [err |-> FALSE, value |-> None, rest |-> v]
        ELSE IF k = Len(v) THEN [err |-> TRUE, value |-> None, rest |-> v]
        ELSE [err |-> FALSE, value |-> Some(v[k + 1]),
              rest |-> Remove(Remove(v, k + 1), k)]

\* ---------------------------------------------------------------- parse_args

\* The tokens before the first "--" (all of them when there is none) ...
raw_args(a) ==
    IF Position(a, DashDash) = 0 THEN a ELSE SubSeq(a, 1, Position(a, DashDash) - 1)

\* ... and those after it, which are operands whatever they look like.
tail_positionals(a) ==
    IF Position(a, DashDash) = 0 THEN <<>>
    ELSE SubSeq(a, Position(a, DashDash) + 1, Len(a))

E_NoValue == "the '-t' option doesn't have an associated value"
E_ForceNoClobber == "Cannot use '--force' and '--no-clobber' together"
E_TargetNoTarget == "Cannot use '--no-target-directory' and '--target-directory' together"
E_Exact2 == "Expect exact 2 operands when using '--no-target-directory'"
E_MissingFile == "Missing file operand"
E_MissingDest == "Missing destination operand"
E_NoBaseName == "Source doesn't have base name"
NoError == "none"

\* parse_args without its two ensure! checks.
FlagConflict_Unchecked(force, no_clobber, target_directory, no_target_directory) ==
    NoError

\* The two ensure! checks of parse_args, in their order.
FlagConflict(force, no_clobber, target_directory, no_target_directory) ==
    IF ~(~force \/ ~no_clobber) THEN E_ForceNoClobber
    ELSE IF ~(target_directory = None \/ ~no_target_directory) THEN E_TargetNoTarget
    ELSE NoError

\* The flag part of parse_args: the four policy flags, then the value of
\* -t, then -T, each taken out of the vector; then the two ensure! checks; then
\* what is left, followed by the tokens after "--", as the positionals.
ParsedFlags(a) ==
    LET v0 == raw_args(a)
        v1 == after_contains(v0, K_force)
        v2 == after_contains(v1, K_no_clobber)
        v3 == after_contains(v2, K_interactive)
        v4 == after_contains(v3, K_verbose)
        t  == opt_value(v4, K_target_directory)
        v6 == after_contains(t.rest, K_no_target_directory)
        force == contains(v0, K_force)
        no_clobber == contains(v1, K_no_clobber)
        noT == contains(t.rest, K_no_target_directory)
    IN  [force |-> force,
         no_clobber |-> no_clobber,
         interactive |-> contains(v2, K_interactive),
         verbose |-> contains(v3, K_verbose),
         target_directory |-> t.value,
         no_target_directory |-> noT,
         positionals |-> v6 \o tail_positionals(a),
         err |-> IF t.err THEN E_NoValue
                 ELSE FlagConflict(force, no_clobber, t.value, noT)]

\* ---------------------------------------------------------------- inputs

\* The tokens a command line is made of: every short flag, one long flag, "--"
\* and four paths: "a", "x/a" (the same base name), "x" and the root, which has
\* no base name.
Flags ==
    {<<"-f">>, <<"--force">>, <<"-n">>, <<"-i">>, <<"-v">>, <<"-t">>, <<"-T">>,
     <<"-h">>, <<"-V">>}

Paths == {<<"a">>, <<"x", "a">>, <<"x">>, Root}

Tokens == Flags \cup {DashDash} \cup Paths

ArgLists == UNION {[1..n -> Tokens] : n \in 0..MaxArgs}

File(p) == [kind |-> "file", id |-> p]

Dir(p) == [kind |-> "dir", id |-> p]

\* The filesystems a run may start in.  The root and the directory "x" with its
\* file "x/a" are always there; "a" is a file or missing.
FsOf(S) == [p \in S |-> IF p \in {Root, <<"x">>} THEN Dir(p) ELSE File(p)]

InitFs == {FsOf({Root, <<"x">>, <<"x", "a">>} \cup A) : A \in {{}, {<<"a">>}}}

\* A line read from standard input, as its characters; the empty line is end
\* of file.
Lines ==
    {<<"y", "\n">>, <<" ", "y", " ", "\n">>, <<"y">>, <<"y", "e", "s", "\n">>,
     <<"n", "\n">>, <<"Y", "\n">>, <<"\n">>, <<>>}

Whitespace == {" ", "\n", "\t", "\r"}

RECURSIVE trim_start(_)
trim_start(l) ==
    IF Len(l) > 0 /\ l[1] \in Whitespace THEN trim_start(Tail(l)) ELSE l

RECURSIVE trim_end(_)
trim_end(l) ==
    IF Len(l) > 0 /\ l[Len(l)] \in Whitespace
    THEN trim_end(SubSeq(l, 1, Len(l) - 1)) ELSE l

\* A trim that leaves the end of the line alone.
trim_StartOnly(l) == trim_start(l)

\* str::trim
trim(l) == trim_end(trim_start(l))

\* ---------------------------------------------------------------- state

VARIABLES
    args,                \* the command line (std::env::args_os().skip(1))
    fs,                  \* the filesystem
    pc,                  \* where the program is
    app,                 \* App: force, no_clobber, interactive, verbose, operations
    target_directory,    \* parse_args: the value of -t, or None
    no_target_directory, \* parse_args: whether -T was given
    positionals,         \* parse_args: the operands
    srcs,                \* push_move_to_dir: the sources not yet turned into pairs
    target_dir,          \* push_move_to_dir: the directory
    err,                 \* the error parse_args returned, or NoError
    queried,             \* the paths Path::is_dir was asked about
    i,                   \* main: the operation the loop is at
    ret,                 \* main: the result of the last rename attempt
    input,               \* main: the line read at the prompt
    stdin,               \* every line read from standard input, with its operation
    before,              \* the filesystem when the current operation started
    attempts,            \* every do_rename call made, in order
    outcome,             \* how each operation ended, in order
    stderr,              \* what was written to standard error
    failed,              \* main: whether some operation failed
    exit_code            \* the exit status, -1 while running

vars ==
    <<args, fs, pc, app, target_directory, no_target_directory, positionals,
      srcs, target_dir, err, queried, i, ret, input, stdin, before, attempts,
      outcome, stderr, failed, exit_code>>

App0 ==
    [force |-> FALSE, no_clobber |-> FALSE, interactive |-> FALSE,
     verbose |-> FALSE, operations |-> <<>>]

Init ==
    /\ args \in ArgLists
    /\ fs \in InitFs
    /\ pc = "parse_args"
    /\ app = App0
    /\ target_directory = None
    /\ no_target_directory = FALSE
    /\ positionals = <<>>
    /\ srcs = <<>>
    /\ target_dir = <<>>
    /\ err = NoError
    /\ queried = {}
    /\ i = 1
    /\ ret = "none"
    /\ input = <<>>
    /\ stdin = <<>>
    /\ before = fs
    /\ attempts = <<>>
    /\ outcome = <<>>
    /\ stderr = <<>>
    /\ failed = FALSE
    /\ exit_code = -1

parseVars == <<app, target_directory, no_target_directory, positionals, srcs, target_dir, err, queried>>

execVars == <<i, ret, input, stdin, before, attempts, outcome, failed>>

\* ---------------------------------------------------------------- parse_args, step by step

\* -h or --help before "--": the help text is printed and the process exits 0.
Help ==
    /\ pc = "parse_args"
    /\ contains(raw_args(args), K_help)
    /\ pc' = "exit_info"
    /\ exit_code' = 0
    /\ UNCHANGED <<args, fs, parseVars, execVars, stderr>>

\* -V or --version before "--": the version is printed and the process exits 0.
Version ==
    /\ pc = "parse_args"
    /\ ~contains(raw_args(args), K_help)
    /\ contains(raw_args(args), K_version)
    /\ pc' = "exit_info"
    /\ exit_code' = 0
    /\ UNCHANGED <<args, fs, parseVars, execVars, stderr>>

\* The flags are taken out of the command line and checked against each other;
\* what is left is the operands.
ParseFlags ==
    /\ pc = "parse_args"
    /\ ~contains(raw_args(args), K_help)
    /\ ~contains(raw_args(args), K_version)
    /\ LET r == ParsedFlags(args)
       IN  IF r.err # NoError
           THEN /\ err' = r.err
                /\ pc' = "usage"
                /\ UNCHANGED <<app, target_directory, no_target_directory, positionals>>
           ELSE /\ app' = [force |-> r.force, no_clobber |-> r.no_clobber,
                           interactive |-> r.interactive, verbose |-> r.verbose,
                           operations |-> <<>>]
                /\ target_directory' = r.target_directory
                /\ no_target_directory' = r.no_target_directory
                /\ positionals' = r.positionals
                /\ pc' = "resolve"
                /\ err' = err
    /\ UNCHANGED <<args, fs, srcs, target_dir, queried, execVars, stderr, exit_code>>

\* A failure that keeps the pairs built so far and lets main run them.
Fail_KeepPartial(e) ==
    /\ err' = e
    /\ app' = app
    /\ pc' = "exec"

\* parse_args fails: the App under construction is dropped with the error.
Fail(e) ==
    /\ err' = e
    /\ app' = App0
    /\ pc' = "usage"

\* -T: exactly two operands, taken as they are.
ResolveNoTargetDirectory ==
    /\ pc = "resolve"
    /\ no_target_directory
    /\ IF Len(positionals) = 2
       THEN /\ app' = [app EXCEPT !.operations =
                          Append(@, <<positionals[1], positionals[2]>>)]
            /\ pc' = "exec"
            /\ err' = err
       ELSE Fail(E_Exact2)
    /\ UNCHANGED <<args, fs, target_directory, no_target_directory, positionals,
                   srcs, target_dir, queried, execVars, stderr, exit_code>>

\* -t DIR: every operand is a source to move into DIR.
ResolveTargetDirectory ==
    /\ pc = "resolve"
    /\ ~no_target_directory
    /\ target_directory # None
    /\ IF positionals # <<>>
       THEN /\ srcs' = positionals
            /\ target_dir' = target_directory[2]
            /\ pc' = "push"
            /\ UNCHANGED <<app, err>>
       ELSE /\ Fail(E_MissingFile)
            /\ UNCHANGED <<srcs, target_dir>>
    /\ UNCHANGED <<args, fs, target_directory, no_target_directory, positionals,
                   queried, execVars, stderr, exit_code>>

\* Neither flag, fewer than two operands.
ResolveAutoMissing ==
    /\ pc = "resolve"
    /\ ~no_target_directory
    /\ target_directory = None
    /\ Len(positionals) < 2
    /\ Fail(IF Len(positionals) = 0 THEN E_MissingFile ELSE E_MissingDest)
    /\ UNCHANGED <<args, fs, target_directory, no_target_directory, positionals,
                   srcs, target_dir, queried, execVars, stderr, exit_code>>

\* The match arm without its guard.
IsPair_AnyTwo(f, ps) == Len(ps) = 2

\* The match arm "2 if !positionals[1].is_dir()".
IsPair(f, ps) == Len(ps) = 2 /\ ~is_dir(f, ps[2])

\* Neither flag, two operands, the second of which is not a directory: one pair.
ResolveAutoPair ==
    /\ pc = "resolve"
    /\ ~no_target_directory
    /\ target_directory = None
    /\ IsPair(fs, positionals)
    /\ queried' = queried \cup {positionals[2]}
    /\ app' = [app EXCEPT !.operations = Append(@, <<positionals[1], positionals[2]>>)]
    /\ pc' = "exec"
    /\ UNCHANGED <<args, fs, target_directory, no_target_directory, positionals,
                   srcs, target_dir, err, execVars, stderr, exit_code>>

\* Neither flag, and two operands with the second a directory, or three or more:
\* the last operand is the directory.  Only the two-operand case asks the
\* filesystem.
ResolveAutoDirectory ==
    /\ pc = "resolve"
    /\ ~no_target_directory
    /\ target_directory = None
    /\ Len(positionals) >= 2
    /\ ~IsPair(fs, positionals)
    /\ queried' = IF Len(positionals) = 2 THEN queried \cup {positionals[2]} ELSE queried
    /\ target_dir' = positionals[Len(positionals)]
    /\ srcs' = SubSeq(positionals, 1, Len(positionals) - 1)
    /\ pc' = "push"
    /\ UNCHANGED <<args, fs, app, target_directory, no_target_directory, positionals,
                   err, execVars, stderr, exit_code>>

\* push_move_to_dir, one source per step: the pair (src, target_dir/base name),
\* or the error of a source without a base name.
PushMoveToDir ==
    /\ pc = "push"
    /\ srcs # <<>>
    /\ LET src == Head(srcs)
           base == file_name(src)
       IN  IF base = None
           THEN /\ Fail(E_NoBaseName)
                /\ srcs' = srcs
           ELSE /\ app' = [app EXCEPT !.operations =
                              Append(@, <<src, join(target_dir, base[2])>>)]
                /\ srcs' = Tail(srcs)
                /\ UNCHANGED <<err, pc>>
    /\ UNCHANGED <<args, fs, target_directory, no_target_directory, positionals,
                   target_dir, queried, execVars, stderr, exit_code>>

\* A resolver that refuses a target that is not an existing directory.
PushDone_DirectoryRequired ==
    /\ pc = "push"
    /\ srcs = <<>>
    /\ IF is_dir(fs, target_dir)
       THEN pc' = "exec" /\ UNCHANGED <<app, err>>
       ELSE /\ err' = "target is not a directory"
            /\ app' = App0
            /\ pc' = "usage"
    /\ UNCHANGED <<args, fs, target_directory, no_target_directory, positionals,
                   srcs, target_dir, queried, execVars, stderr, exit_code>>

\* push_move_to_dir and then parse_args return Ok.
PushDone ==
    /\ pc = "push"
    /\ srcs = <<>>
    /\ pc' = "exec"
    /\ UNCHANGED <<args, fs, parseVars, execVars, stderr, exit_code>>

\* main, on the error of parse_env: the message, and exit status 1.
UsageExit ==
    /\ pc = "usage"
    /\ stderr' = Append(stderr, [kind |-> "usage", op |-> 0, msg |-> err])
    /\ exit_code' = 1
    /\ pc' = "exit_usage"
    /\ UNCHANGED <<args, fs, parseVars, execVars>>

\* ---------------------------------------------------------------- main, the executor

Op == app.operations[i]

Src == Op[1]

Dest == Op[2]

Y == <<"y">>

\* A loop that gives up at the first operation that fails.
Classify_StopOnFailure(c) ==
    /\ outcome' = Append(outcome, [op |-> i, class |-> c, before |-> before, after |-> fs])
    /\ i' = IF c = "Failed" THEN Len(app.operations) + 1 ELSE i + 1
    /\ pc' = "exec"

\* The operation the loop is at ends as class c; the loop goes on to the next.
Classify(c) ==
    /\ outcome' = Append(outcome, [op |-> i, class |-> c, before |-> before, after |-> fs])
    /\ i' = i + 1
    /\ pc' = "exec"

\* The condition under which main looks at no_clobber and interactive.
Conflict == ~app.force /\ ret = "AlreadyExists"

\* "if app.no_clobber": the operation is skipped.
Skips == Conflict /\ app.no_clobber

\* The prompt taking precedence over the skip.
Prompts_BeforeNoClobber == Conflict /\ app.interactive

\* "else if app.interactive": the user is asked.
Prompts == Conflict /\ ~app.no_clobber /\ app.interactive

\* A first attempt that always permits overwriting.
FirstOverwrite_Always == TRUE

\* The overwrite argument of the first attempt: app.force.
FirstOverwrite == app.force

\* The first attempt of an operation: overwrite is permitted iff force is set.
Attempt ==
    /\ pc = "exec"
    /\ i <= Len(app.operations)
    /\ \E r \in do_rename(fs, Src, Dest, FirstOverwrite) :
          /\ ret' = r
          /\ fs' = IF r = "Ok" THEN Moved(fs, Src, Dest) ELSE fs
          /\ attempts' = Append(attempts,
                [op |-> i, overwrite |-> FirstOverwrite, ret |-> r,
                 existed |-> Exists(fs, Dest), asked |-> FALSE])
    /\ before' = fs
    /\ pc' = "check"
    /\ UNCHANGED <<args, parseVars, i, input, stdin, outcome, stderr, failed, exit_code>>

\* The destination exists and no_clobber is set: on to the next operation.
NoClobberSkip ==
    /\ pc = "check"
    /\ Skips
    /\ Classify("SkippedNoClobber")
    /\ UNCHANGED <<args, fs, parseVars, ret, input, stdin, before, attempts, stderr, failed, exit_code>>

\* The destination exists and interactive is set: the prompt, and the line read.
Prompt ==
    /\ pc = "check"
    /\ Prompts
    /\ stderr' = Append(stderr, [kind |-> "Overwrite", op |-> i, msg |-> ""])
    /\ \E l \in Lines :
          /\ input' = l
          /\ stdin' = Append(stdin, [op |-> i, line |-> l])
    /\ pc' = "answer"
    /\ UNCHANGED <<args, fs, parseVars, i, ret, before, attempts, outcome, failed, exit_code>>

\* The answer is "y": the second attempt, with overwrite permitted.
Retry ==
    /\ pc = "answer"
    /\ trim(input) = Y
    /\ \E r \in do_rename(fs, Src, Dest, TRUE) :
          /\ ret' = r
          /\ fs' = IF r = "Ok" THEN Moved(fs, Src, Dest) ELSE fs
          /\ attempts' = Append(attempts,
                [op |-> i, overwrite |-> TRUE, ret |-> r,
                 existed |-> Exists(fs, Dest), asked |-> TRUE])
    /\ pc' = "report"
    /\ UNCHANGED <<args, parseVars, i, input, stdin, before, outcome, stderr, failed, exit_code>>

\* Any other answer: on to the next operation.
Decline ==
    /\ pc = "answer"
    /\ trim(input) # Y
    /\ Classify("SkippedUserDeclined")
    /\ UNCHANGED <<args, fs, parseVars, ret, input, stdin, before, attempts, stderr, failed, exit_code>>

\* Where the match on ret is reached: after the retry, or straight from the
\* first attempt when neither the skip nor the prompt applies.
AtReport ==
    \/ pc = "report"
    \/ pc = "check" /\ ~Skips /\ ~Prompts

\* The rename succeeded; with verbose, a line says so.
ReportOk ==
    /\ AtReport
    /\ ret = "Ok"
    /\ stderr' = IF app.verbose
                 THEN Append(stderr, [kind |-> "Renamed", op |-> i, msg |-> ""])
                 ELSE stderr
    /\ Classify("Succeeded")
    /\ UNCHANGED <<args, fs, parseVars, ret, input, stdin, before, attempts, failed, exit_code>>

\* The rename failed: the diagnostic, and the run is marked failed.
ReportErr ==
    /\ AtReport
    /\ ret # "Ok"
    /\ stderr' = Append(stderr, [kind |-> "Cannot rename", op |-> i, msg |-> ret])
    /\ failed' = TRUE
    /\ Classify("Failed")
    /\ UNCHANGED <<args, fs, parseVars, ret, input, stdin, before, attempts, exit_code>>

\* main exiting 0 whatever happened.
ExitStatus_AlwaysZero(f) == 0

\* The exit status of main: 1 if some operation failed, else 0.
ExitStatus(f) == IF f THEN 1 ELSE 0

\* The end of the list.
Finish ==
    /\ pc = "exec"
    /\ i > Len(app.operations)
    /\ exit_code' = ExitStatus(failed)
    /\ pc' = "exit_main"
    /\ UNCHANGED <<args, fs, parseVars, execVars, stderr>>

Next ==
    \/ Help
    \/ Version
    \/ ParseFlags
    \/ ResolveNoTargetDirectory
    \/ ResolveTargetDirectory
    \/ ResolveAutoMissing
    \/ ResolveAutoPair
    \/ ResolveAutoDirectory
    \/ PushMoveToDir
    \/ PushDone
    \/ UsageExit
    \/ Attempt
    \/ NoClobberSkip
    \/ Prompt
    \/ Retry
    \/ Decline
    \/ ReportOk
    \/ ReportErr
    \/ Finish

Spec == Init /\ [][Next]_vars

\* ---------------------------------------------------------------- properties

Ops == app.operations

\* The do_rename calls made for operation k, in order.
AttemptsOf(k) == SelectSeq(attempts, LAMBDA e : e.op = k)

LastAttemptOf(k) == AttemptsOf(k)[Len(AttemptsOf(k))]

Ended(k) == k \in 1..Len(outcome)

Skipped(k) == outcome[k].class \in {"SkippedNoClobber", "SkippedUserDeclined"}

\* Operation k is Failed in the sense of the specification: its last rename
\* attempt returned an error and it was not skipped.
OpFailed(k) == Ended(k) /\ LastAttemptOf(k).ret # "Ok" /\ ~Skipped(k)

Wrote(kind, k) == \E m \in 1..Len(stderr) : stderr[m].kind = kind /\ stderr[m].op = k

WroteAbout(k) == \E m \in 1..Len(stderr) : stderr[m].op = k

\* C1: a run that got through resolution ends with a non-zero exit status if
\* and only if some operation is Failed (its last attempt returned an error and
\* it was not skipped); the status is 0 or 1, and skipped operations do not
\* count.
C1_ExitStatusIffFailed ==
    pc = "exit_main" =>
        /\ Len(outcome) = Len(Ops)
        /\ exit_code \in {0, 1}
        /\ (exit_code # 0) <=> (\E k \in 1..Len(Ops) : OpFailed(k))

\* A run with one operation skipped and another Failed has ended with status 1.
C1_Witness ==
    /\ pc = "exit_main"
    /\ exit_code = 1
    /\ \E k \in 1..Len(Ops) : outcome[k].class = "SkippedNoClobber"
    /\ \E k \in 1..Len(Ops) : OpFailed(k)

\* Neither force nor no_clobber nor interactive is set.
DefaultPolicy == ~app.force /\ ~app.no_clobber /\ ~app.interactive

\* C2: under the default policy an operation whose destination exists at its
\* rename attempt is Failed: the "Cannot rename" diagnostic is written, there
\* is no prompt and no second attempt, the filesystem is as it was before the
\* operation, and the run exits 1.
C2_DefaultRefusesOverwrite ==
    \A k \in 1..Len(outcome) :
        (DefaultPolicy /\ AttemptsOf(k)[1].existed) =>
            /\ outcome[k].class = "Failed"
            /\ OpFailed(k)
            /\ Wrote("Cannot rename", k)
            /\ ~Wrote("Overwrite", k)
            /\ Len(AttemptsOf(k)) = 1
            /\ ~AttemptsOf(k)[1].overwrite
            /\ outcome[k].after = outcome[k].before
            /\ stdin = <<>>
            /\ (pc = "exit_main" => exit_code = 1)

\* Under the default policy an operation whose source and destination both
\* exist has ended, and the run has exited.
C2_Witness ==
    /\ pc = "exit_main"
    /\ DefaultPolicy
    /\ \E k \in 1..Len(outcome) :
          /\ AttemptsOf(k)[1].existed
          /\ AttemptsOf(k)[1].ret = "AlreadyExists"
          /\ Exists(outcome[k].before, Ops[k][1])

\* The consequences the specification draws for a no-clobber skip of operation
\* k: classified SkippedNoClobber after a single attempt that did not permit
\* overwriting, nothing written about it, nothing read, the filesystem as
\* before, not Failed, and the run goes on to the end of the list.
NoClobberSkipOf(k) ==
    /\ outcome[k].class = "SkippedNoClobber"
    /\ Len(AttemptsOf(k)) = 1
    /\ ~AttemptsOf(k)[1].overwrite
    /\ ~WroteAbout(k)
    /\ \A m \in 1..Len(stdin) : stdin[m].op # k
    /\ outcome[k].after = outcome[k].before
    /\ ~OpFailed(k)
    /\ (pc = "exit_main" /\ exit_code # 0) => \E j \in 1..Len(Ops) : j # k /\ OpFailed(j)
    /\ (pc = "exit_main" /\ k < Len(Ops)) => Len(AttemptsOf(k + 1)) >= 1

\* C3 as stated: with force false and no_clobber true, an operation whose
\* destination exists at its rename attempt is skipped as SkippedNoClobber.
C3_Original ==
    \A k \in 1..Len(outcome) :
        (~app.force /\ app.no_clobber /\ AttemptsOf(k)[1].existed) => NoClobberSkipOf(k)

\* C3, amended: with force false and no_clobber true, an operation whose first
\* rename attempt fails with "already exists" is skipped as SkippedNoClobber,
\* whether or not interactive is set; and "already exists" is only ever
\* returned for a destination that exists.
C3_NoClobberSkipsOnAlreadyExists ==
    \A k \in 1..Len(outcome) :
        /\ (AttemptsOf(k)[1].ret = "AlreadyExists") => AttemptsOf(k)[1].existed
        /\ (~app.force /\ app.no_clobber /\ AttemptsOf(k)[1].ret = "AlreadyExists")
              => NoClobberSkipOf(k)

\* An operation that is not the last was skipped by no_clobber and the run went
\* on to exit 0.
C3_Witness ==
    /\ pc = "exit_main"
    /\ exit_code = 0
    /\ app.no_clobber
    /\ \E k \in 1..Len(Ops) :
          /\ k < Len(Ops)
          /\ outcome[k].class = "SkippedNoClobber"
          /\ AttemptsOf(k)[1].ret = "AlreadyExists"

\* The line, stripped of the white space around it, is exactly "y".
TrimmedIsY(l) ==
    \E m \in 1..Len(l) :
        /\ l[m] = "y"
        /\ \A j \in 1..Len(l) : j # m => l[j] \in Whitespace

LinesOf(k) == SelectSeq(stdin, LAMBDA e : e.op = k)

PromptsOf(k) == SelectSeq(stderr, LAMBDA e : e.op = k /\ e.kind = "Overwrite")

InteractivePolicy == app.interactive /\ ~app.force /\ ~app.no_clobber

\* C4: in interactive mode an operation is prompted for, once, if and only if
\* its first attempt failed with "already exists".  When the trimmed answer is
\* exactly "y" there is exactly one retry, with overwrite permitted, and the
\* operation is Succeeded or Failed as the retry went; after any other answer
\* there is no retry and the operation is SkippedUserDeclined, not Failed, with
\* the filesystem as before.
C4_InteractivePrompt ==
    \A k \in 1..Len(outcome) :
        InteractivePolicy =>
            LET first == AttemptsOf(k)[1]
                asked == first.ret = "AlreadyExists"
            IN  /\ ~first.overwrite
                /\ Len(PromptsOf(k)) = (IF asked THEN 1 ELSE 0)
                /\ Len(LinesOf(k)) = (IF asked THEN 1 ELSE 0)
                /\ ~asked => Len(AttemptsOf(k)) = 1
                /\ (asked /\ TrimmedIsY(LinesOf(k)[1].line)) =>
                      /\ Len(AttemptsOf(k)) = 2
                      /\ AttemptsOf(k)[2].overwrite
                      /\ outcome[k].class =
                            (IF AttemptsOf(k)[2].ret = "Ok" THEN "Succeeded" ELSE "Failed")
                      /\ OpFailed(k) <=> AttemptsOf(k)[2].ret # "Ok"
                /\ (asked /\ ~TrimmedIsY(LinesOf(k)[1].line)) =>
                      /\ Len(AttemptsOf(k)) = 1
                      /\ outcome[k].class = "SkippedUserDeclined"
                      /\ ~OpFailed(k)
                      /\ outcome[k].after = outcome[k].before
                      /\ (pc = "exit_main" /\ exit_code # 0) =>
                            \E j \in 1..Len(Ops) : j # k /\ OpFailed(j)

\* In interactive mode a prompt was answered " y " and the retry replaced the
\* destination.
C4_Witness ==
    /\ InteractivePolicy
    /\ \E k \in 1..Len(outcome) :
          /\ Len(LinesOf(k)) = 1
          /\ LinesOf(k)[1].line = <<" ", "y", " ", "\n">>
          /\ outcome[k].class = "Succeeded"
          /\ outcome[k].after # outcome[k].before

\* C5: the first attempt of every operation permits overwriting iff force is
\* set; with force there is no prompt, nothing is read and no operation is
\* skipped; and a rename that succeeds onto an existing destination was made
\* with force set or was the retry after the answer "y" to that operation's
\* prompt.
C5_OverwriteOnlyForcedOrConfirmed ==
    /\ \A k \in 1..Len(Ops) :
          Len(AttemptsOf(k)) >= 1 => (AttemptsOf(k)[1].overwrite <=> app.force)
    /\ app.force =>
          /\ \A m \in 1..Len(stderr) : stderr[m].kind # "Overwrite"
          /\ stdin = <<>>
          /\ \A k \in 1..Len(outcome) :
                outcome[k].class \in {"Succeeded", "Failed"} /\ Len(AttemptsOf(k)) = 1
    /\ \A k \in 1..Len(Ops) : \A m \in 1..Len(AttemptsOf(k)) :
          (AttemptsOf(k)[m].ret = "Ok" /\ AttemptsOf(k)[m].existed) =>
              \/ app.force
              \/ /\ m = 2
                 /\ Len(LinesOf(k)) = 1
                 /\ TrimmedIsY(LinesOf(k)[1].line)

\* With force, the second of two sources with the same base name replaced the
\* destination the first had just created.
C5_Witness ==
    /\ app.force
    /\ Len(outcome) >= 2
    /\ Ops[1][2] = Ops[2][2]
    /\ ~Exists(outcome[1].before, Ops[1][2])
    /\ outcome[1].class = "Succeeded"
    /\ AttemptsOf(2)[1].existed
    /\ outcome[2].class = "Succeeded"

FirstAttempts == SelectSeq(attempts, LAMBDA e : ~e.asked)

Executing == pc \in {"exec", "check", "answer", "report"}

\* The safety part of C6: the first attempts made so far are those of
\* operations 1, 2, ... in list order, one each; every attempt belongs to the
\* operation the loop is at; an operation has ended before the next one's first
\* attempt; the executor is never stuck; and when main ends every operation of
\* the list has had its first attempt and has ended.
C6_Sequential ==
    /\ \A m \in 1..Len(FirstAttempts) : FirstAttempts[m].op = m
    /\ \A k \in 1..Len(outcome) : outcome[k].op = k
    /\ \A m \in 1..Len(attempts) : \A n \in m..Len(attempts) :
          /\ attempts[m].op <= attempts[n].op
          /\ attempts[m].op <= Len(outcome) + 1
    /\ Len(FirstAttempts) \in {Len(outcome), Len(outcome) + 1}
    /\ Len(FirstAttempts) <= Len(Ops)
    /\ Executing => (i = Len(outcome) + 1 /\ ENABLED Next)
    /\ pc = "exit_main" => (Len(FirstAttempts) = Len(Ops) /\ Len(outcome) = Len(Ops))

\* How far the executor is from the end of the list, in steps at most.
Remaining ==
    5 * (Len(Ops) + 1 - i)
      + (CASE pc = "exec" -> 4 [] pc = "check" -> 3 [] pc = "answer" -> 2
           [] pc = "report" -> 1 [] OTHER -> 0)

\* C6: the executor makes the first attempt of every operation exactly once,
\* in list order, one operation ending before the next starts, and neither a
\* Failed nor a skipped operation keeps the run from reaching the end of the
\* list: the executor can always take a step, and every step brings it nearer
\* to the end, which it reaches with every operation attempted and ended.
C6_EveryOperationAttempted ==
    /\ []C6_Sequential
    /\ [][Executing => (Remaining' < Remaining /\ Remaining' >= 0)]_vars

\* A run of three operations, the first Failed, has reached the end of the list.
C6_Witness ==
    /\ pc = "exit_main"
    /\ Len(Ops) = 3
    /\ outcome[1].class = "Failed"
    /\ outcome[3].class = "Succeeded"

Resolving == pc \in {"parse_args", "resolve", "push", "usage", "exit_usage", "exit_info"}

\* C7: no rename is attempted while the operation list is being built, nor
\* after it could not be built: the filesystem is untouched, a failed
\* resolution leaves no operation behind and exits 1, and whenever a rename has
\* been attempted resolution had succeeded with every source turned into a pair.
C7_ResolutionBeforeExecution ==
    /\ Resolving => (attempts = <<>> /\ outcome = <<>> /\ fs = before)
    /\ pc \in {"usage", "exit_usage"} => (err # NoError /\ app.operations = <<>>)
    /\ pc = "exit_usage" => exit_code = 1
    /\ err # NoError => (attempts = <<>> /\ pc \in {"usage", "exit_usage"})
    /\ attempts # <<>> => (srcs = <<>> /\ err = NoError)

\* Resolution failed on a later source without a base name, after an earlier
\* source had been turned into a pair, and the process has exited 1.
C7_Witness ==
    /\ pc = "exit_usage"
    /\ err = E_NoBaseName
    /\ Len(srcs) >= 1
    /\ Len(srcs) < Len(positionals) - (IF target_directory = None THEN 1 ELSE 0)

Failure == <<"fail">>

HasBaseName(s) == s[Len(s)] # "/"

\* Mode 2 of the resolver: each source, in order, with dir/base name.
IntoDirectory(S, dir) ==
    IF \E k \in 1..Len(S) : ~HasBaseName(S[k]) THEN Failure
    ELSE [k \in 1..Len(S) |-> <<S[k], dir \o <<S[k][Len(S[k])]>> >>]

\* The three-mode resolver of the specification, on the flags and operands
\* parse_args extracted and the filesystem f.
Resolver(noT, td, ops, f) ==
    IF noT THEN (IF Len(ops) = 2 THEN <<<<ops[1], ops[2]>>>> ELSE Failure)
    ELSE IF td # None
    THEN (IF Len(ops) = 0 THEN Failure ELSE IntoDirectory(ops, td[2]))
    ELSE IF Len(ops) < 2 THEN Failure
    ELSE IF Len(ops) = 2 /\ ~(Exists(f, ops[2]) /\ f[ops[2]].kind = "dir")
    THEN <<<<ops[1], ops[2]>>>>
    ELSE IntoDirectory(SubSeq(ops, 1, Len(ops) - 1), ops[Len(ops)])

Expected == Resolver(no_target_directory, target_directory, positionals, fs)

\* Resolution is over and no rename has been attempted yet: the filesystem is
\* the one resolution saw.
JustResolved == pc = "exec" /\ attempts = <<>>

ResolverErrors == {E_Exact2, E_MissingFile, E_MissingDest, E_NoBaseName}

\* C8: parse_args produces the operation list of the three-mode resolver: it
\* succeeds exactly when the resolver does, with the resolver's pairs in
\* operand order, one per source, and with -T it asks the filesystem nothing.
C8_ThreeModeResolver ==
    /\ JustResolved =>
          /\ Expected # Failure
          /\ app.operations = Expected
    /\ (pc = "usage" /\ err \in ResolverErrors) => Expected = Failure
    /\ pc = "usage" => err \in ResolverErrors \cup {E_NoValue, E_ForceNoClobber, E_TargetNoTarget}
    /\ (no_target_directory \/ target_directory # None \/ Len(positionals) # 2)
          => queried = {}
    /\ (pc = "exit_main" /\ target_directory = None /\ ~no_target_directory
          /\ Len(positionals) = 2) => queried = {positionals[2]}

\* With neither flag, three operands were resolved into two pairs, the first
\* operand's first.
C8_Witness ==
    /\ JustResolved
    /\ target_directory = None
    /\ ~no_target_directory
    /\ Len(positionals) = 3
    /\ Len(Ops) = 2
    /\ Ops[1][1] = positionals[1]
    /\ Ops[1][1] # Ops[2][1]

\* The run resolves its operands into a directory: -t was given, or neither
\* flag with three or more operands.
IntoDirectoryMode ==
    /\ pc # "parse_args"
    /\ err \notin {E_NoValue, E_ForceNoClobber, E_TargetNoTarget}
    /\ ~no_target_directory
    /\ target_directory # None \/ Len(positionals) >= 3

\* The directory of such a run.
TargetOperand ==
    IF target_directory # None THEN target_directory[2] ELSE positionals[Len(positionals)]

SourceOperands ==
    IF target_directory # None THEN positionals
    ELSE SubSeq(positionals, 1, Len(positionals) - 1)

Given(keys) == \E k \in 1..Len(raw_args(args)) : raw_args(args)[k] \in {keys[1], keys[2]}

\* --force and --no-clobber are both among the tokens before "--", or parse_args
\* took both a --target-directory value and --no-target-directory from them.
ConflictingFlags ==
    \/ Given(K_force) /\ Given(K_no_clobber)
    \/ /\ ParsedFlags(args).target_directory # None
       /\ ParsedFlags(args).no_target_directory

\* Resolution failed before it looked at an operand or at the filesystem.
FailedEarly ==
    /\ pc \in {"usage", "exit_usage"}
    /\ err \in {E_ForceNoClobber, E_TargetNoTarget, E_NoValue}
    /\ positionals = <<>>
    /\ app.operations = <<>>
    /\ queried = {}
    /\ attempts = <<>>
    /\ pc = "exit_usage" => exit_code = 1

\* C10 as stated: conflicting flags always make resolution fail, before any
\* operand is inspected and before any filesystem query.
C10_Original == (pc # "parse_args" /\ ConflictingFlags) => FailedEarly

\* C10, amended: no resolved configuration has force and no_clobber both set,
\* nor a target directory together with no_target_directory; and conflicting
\* flags make resolution fail before any operand is inspected and before any
\* filesystem query, unless -h/--help or -V/--version is also given before
\* "--": then the text is printed and the process exits 0.  Either way no
\* rename is attempted.
C10_ConflictingFlagsNeverResolve ==
    /\ ~(app.force /\ app.no_clobber)
    /\ ~(target_directory # None /\ no_target_directory)
    /\ (pc # "parse_args" /\ ConflictingFlags) =>
          IF Given(K_help) \/ Given(K_version)
          THEN /\ pc = "exit_info"
               /\ exit_code = 0
               /\ attempts = <<>>
               /\ queried = {}
               /\ stderr = <<>>
          ELSE FailedEarly

\* -f before the operands and -n after them: resolution failed on the conflict
\* and the process exited 1.
C10_Witness ==
    /\ pc = "exit_usage"
    /\ err = E_ForceNoClobber
    /\ Len(args) = 4
    /\ args[1] = <<"-f">>
    /\ args[4] = <<"-n">>
    /\ Position(args, DashDash) = 0

====
